---- MODULE Spec2Model ----
(***************************************************************************)
(* Task scheduling and persistence of glass3k: TaskScheduler               *)
(* (src/task_scheduler.py) over DatabaseManager (src/database.py).         *)
(*                                                                         *)
(* Time is counted in minutes since midnight of the day the process was    *)
(* started.  A timestamp column that may be NULL is <<>> (None) or <<t>>.  *)
(* A task id "task_<YYYYmmdd_HHMM>" is <<"task", minute, 0>> and an id     *)
(* "test_<YYYYmmdd_HHMMSS>" is <<"test", minute, second>>.                 *)
(* An error_message is None, <<0>> for the raw text of an exception that   *)
(* escaped the iteration loop, or the sequence of the iteration numbers    *)
(* whose messages were joined.                                             *)
(***************************************************************************)
EXTENDS Integers, Sequences, FiniteSets, Bags, TLC

VARIABLES
    now,              \* wall clock, datetime.now(), in minutes
    tasks,            \* rows of table scheduled_tasks
    dbConfig,         \* the row of table scheduler_config
    config,           \* TaskScheduler.config (in memory)
    is_running,       \* TaskScheduler.is_running
    jobs,             \* jobs registered with the schedule library
    loops,            \* live _run_scheduler threads: a bag of the times their sleep ends
    workers,          \* live execute_task threads: a bag of their frames
    current_task_id,  \* TaskScheduler.current_task_id
    calls,            \* number of calls made from the task management page so far
    log               \* the last two calls made: what was called, and with what

vars == <<now, tasks, dbConfig, config, is_running, jobs, loops, workers, current_task_id,
         calls, log>>

-----------------------------------------------------------------------------
(* Bounds of the model *)

\* minute steps of the clock within an hour
MaxMinutes == 1
\* hour steps of the clock
MaxHours == 1
\* calls made from the task management page in one behaviour
MaxCalls == 2

\* workflow_count arguments of the create operations
Counts == {1, 3}
\* auto_execute_delay_hours values update_config is called with
DelayChoices == {2, 8}
\* %S of the moment create_immediate_task is called at
Seconds == {30}
\* days arguments of delete_old_tasks
DaysChoices == {0, 30}

-----------------------------------------------------------------------------
(* Program constants *)

Minute == 1
Hour == 60
Day == 1440
\* the process is started at 17:00
StartTime == 17 * Hour
\* SchedulerConfig defaults
DefaultAutoCreateTime == 1080
DefaultDelayHours == 8
\* workflow_count of a test task when none is given
ImmediateDefaultCount == 5
\* stored messages are capped to the first 3
MaxMessages == 3

None == <<>>
Some(t) == <<t>>

\* TaskStatus: each member stands for its value, the text stored in column status
PENDING == "Pending"
RUNNING == "Running"
COMPLETED == "Completed"
FAILED == "Failed"
CANCELLED == "Cancelled"
TaskStatus == {PENDING, RUNNING, COMPLETED, FAILED, CANCELLED}
Terminal == {COMPLETED, FAILED, CANCELLED}

\* SchedulerConfig()
SchedulerConfig(enabled, time, delay, count) ==
    [auto_create_enabled |-> enabled, auto_create_time |-> time,
     auto_execute_delay_hours |-> delay, default_workflow_count |-> count]

\* ScheduledTask(id, name, scheduled_time, workflow_count, status, created_at)
ScheduledTask(id, name, sched, count, status, created_at) ==
    [id |-> id, name |-> name, scheduled_time |-> sched, workflow_count |-> count,
     status |-> status, created_at |-> created_at, started_at |-> None,
     completed_at |-> None, success_count |-> 0, error_count |-> 0,
     error_message |-> None]

-----------------------------------------------------------------------------
(* DatabaseManager: pure parts *)

StoredIds == {r.id : r \in tasks}

\* SELECT * FROM scheduled_tasks WHERE id = ?  (fetchone, or None)
get_task_by_id(id) ==
    IF \E r \in tasks : r.id = id
    THEN Some(CHOOSE r \in tasks : r.id = id)
    ELSE None

\* variant of save_task: INSERT OR IGNORE, a row whose primary key is stored
\* already is left as it is
insert_or_ignore(rows, task) ==
    IF \E r \in rows : r.id = task.id THEN rows ELSE rows \cup {task}

\* variant of save_task: the status columns are written without WHERE id = ?,
\* into every stored row
save_task_without_where(rows, task) ==
    {[r EXCEPT !.status = task.status,
               !.started_at = task.started_at,
               !.completed_at = task.completed_at,
               !.success_count = task.success_count,
               !.error_count = task.error_count,
               !.error_message = task.error_message] : r \in rows} \cup {task}

\* INSERT OR REPLACE INTO scheduled_tasks: the row with the same primary key
\* is removed, the new row is inserted whole
save_task(rows, task) ==
    {r \in rows : r.id # task.id} \cup {task}

\* DELETE FROM scheduled_tasks WHERE id = ?
delete_task(rows, id) ==
    {r \in rows : r.id # id}

\* A timestamp column compared with the cutoff: NULL < ? is not true
OlderThan(col, cutoff) ==
    col # None /\ col[1] < cutoff

\* variant of OldTaskRow: the WHERE clause without its status condition
OldRowOfAnyStatus(r, cutoff) ==
    \/ OlderThan(r.completed_at, cutoff)
    \/ (r.completed_at = None /\ r.created_at < cutoff)

\* variant of OldTaskRow: a WHERE clause that compares created_at only
old_task_row_by_created_at(r, cutoff) ==
    /\ r.status \in {COMPLETED, FAILED, CANCELLED}
    /\ r.created_at < cutoff

\* the WHERE clause of delete_old_tasks
OldTaskRow(r, cutoff) ==
    /\ r.status \in {COMPLETED, FAILED, CANCELLED}
    /\ \/ OlderThan(r.completed_at, cutoff)
       \/ (r.completed_at = None /\ r.created_at < cutoff)

\* DELETE FROM scheduled_tasks WHERE status IN (...) AND (...)
delete_old_tasks(rows, days, clock) ==
    {r \in rows : ~OldTaskRow(r, clock - days * Day)}

\* cursor.rowcount of that DELETE, which delete_old_tasks returns
deleted_count(rows, days, clock) ==
    Cardinality({r \in rows : OldTaskRow(r, clock - days * Day)})

\* variant of IsCreatedDesc: ORDER BY created_at ASC
is_created_asc(s) ==
    \A i \in 1..Len(s) : \A j \in 1..Len(s) :
        i < j => s[i].created_at <= s[j].created_at

\* ORDER BY created_at DESC: every order of the rows the clause allows
\* (rows of equal created_at come in an order SQLite does not fix)
IsCreatedDesc(s) ==
    \A i \in 1..Len(s) : \A j \in 1..Len(s) :
        i < j => s[i].created_at >= s[j].created_at

RECURSIVE Orders(_)
Orders(rows) ==
    IF rows = {} THEN {<<>>}
    ELSE UNION {{<<r>> \o s : s \in Orders(rows \ {r})} : r \in rows}

\* load_tasks(): the lists SELECT * ... ORDER BY created_at DESC may return
load_tasks(rows) == {s \in Orders(rows) : IsCreatedDesc(s)}

\* variant of total_tasks: COUNT(*) with the WHERE clause of recent_tasks
count_recent == Cardinality({r \in tasks : r.created_at >= now - 7 * Day})

\* get_task_statistics()['total_tasks']: SELECT COUNT(*)
total_tasks == Cardinality(tasks)

\* get_task_statistics()['status_counts']: GROUP BY status
status_counts ==
    [st \in {r.status : r \in tasks} |-> Cardinality({r \in tasks : r.status = st})]

\* get_task_statistics()['recent_tasks']: created_at >= now - 7 days
recent_tasks == Cardinality({r \in tasks : r.created_at >= now - 7 * Day})

get_task_statistics ==
    [total_tasks |-> total_tasks, status_counts |-> status_counts,
     recent_tasks |-> recent_tasks]

-----------------------------------------------------------------------------
(* TaskScheduler: pure parts *)

\* kwargs.get(key, default)
KwGet(kw, key, default) ==
    IF key \in DOMAIN kw THEN kw[key] ELSE default

\* update_task_status between its read and its write: the task object it saves
UpdatedTask(task, status, kw, clock) ==
    LET t1 == [task EXCEPT !.status = status]
    IN  IF status = RUNNING
        THEN [t1 EXCEPT !.started_at = Some(clock)]
        ELSE IF status \in {COMPLETED, FAILED}
        THEN [t1 EXCEPT !.completed_at = Some(clock),
                        !.success_count = KwGet(kw, "success_count", 0),
                        !.error_count = KwGet(kw, "error_count", 0),
                        !.error_message = KwGet(kw, "error_message", None)]
        ELSE t1

\* update_task_status(task_id, status, **kwargs) run without interruption
update_task_status(rows, id, status, kw, clock) ==
    IF \E r \in rows : r.id = id
    THEN save_task(rows, UpdatedTask(CHOOSE r \in rows : r.id = id, status, kw, clock))
    ELSE rows

\* task.id.startswith('test_')
IsTestId(id) == id[1] = "test"

\* variant of task_execute_time: no branch for the ids of test tasks
execute_time_without_test_branch(task, cfg) ==
    task.created_at + cfg.auto_execute_delay_hours * Hour

\* variant of task_execute_time: the execute_time fixed when the task was
\* created, which its id is named after
execute_time_of_creation(task, cfg) == task.id[2]

\* task_execute_time of _check_and_execute_tasks
task_execute_time(task, cfg) ==
    IF IsTestId(task.id)
    THEN task.created_at + Minute
    ELSE task.created_at + cfg.auto_execute_delay_hours * Hour

\* get_tasks()['pending'] of one loaded list
PendingOf(list) == SelectSeq(list, LAMBDA t : t.status = PENDING)

\* get_tasks()['running'] of one loaded list
RunningOf(list) == SelectSeq(list, LAMBDA t : t.status = RUNNING)

\* variant of CompletedOf: the list without the Cancelled tasks
completed_without_cancelled(list) ==
    SelectSeq(list, LAMBDA t : t.status \in {COMPLETED, FAILED})

\* get_tasks()['completed'] of one loaded list
CompletedOf(list) ==
    SelectSeq(list, LAMBDA t : t.status \in {COMPLETED, FAILED, CANCELLED})

\* get_tasks() over the list load_tasks() returned
get_tasks(list) ==
    [pending |-> PendingOf(list),
     running |-> RunningOf(list),
     completed |-> CompletedOf(list)]

\* the task the for loop of _check_and_execute_tasks reaches its break with:
\* the first pending task of the list that is due, or None
RECURSIVE FirstDue(_, _, _)
FirstDue(pending, cfg, clock) ==
    IF pending = <<>> THEN None
    ELSE IF clock >= task_execute_time(Head(pending), cfg)
    THEN Some(Head(pending))
    ELSE FirstDue(Tail(pending), cfg, clock)

\* variant of DailyTask: the count of a test task where the default of the
\* configuration belongs
daily_task_with_fixed_default(count, cfg, clock) ==
    LET execute_time == clock + cfg.auto_execute_delay_hours * Hour
    IN  ScheduledTask(<<"task", execute_time, 0>>, <<"daily", execute_time>>,
                      execute_time % Day,
                      IF count = None THEN ImmediateDefaultCount ELSE count[1],
                      PENDING, clock)

\* the task create_daily_task builds
DailyTask(count, cfg, clock) ==
    LET execute_time == clock + cfg.auto_execute_delay_hours * Hour
    IN  ScheduledTask(<<"task", execute_time, 0>>, <<"daily", execute_time>>,
                      execute_time % Day,
                      IF count = None THEN cfg.default_workflow_count ELSE count[1],
                      PENDING, clock)

\* the task create_immediate_task builds; sec is %S of the moment of the call
ImmediateTask(count, sec, clock) ==
    LET execute_time == clock + Minute
    IN  ScheduledTask(<<"test", execute_time, sec>>, <<"test", execute_time, sec>>,
                      execute_time % Day,
                      IF count = None THEN ImmediateDefaultCount ELSE count[1],
                      PENDING, clock)

\* schedule.every().day.at(time): the first next_run of the job
DayAt(time, clock) ==
    LET today == (clock \div Day) * Day + time
    IN  IF time > clock % Day THEN today ELSE today + Day

\* the frame of a thread started on execute_task(task_id)
NewWorker(id, by) ==
    [task_id |-> id, by |-> by, pc |-> "start", task |-> None,
     workflow_count |-> 0, i |-> 0, success_count |-> 0, error_count |-> 0,
     error_messages |-> <<>>]

\* threading.Thread(target=run_task).start()
Spawn(bag, id, by) == bag (+) SetToBag({NewWorker(id, by)})

\* variant of error_msg: error_messages[-3:], the last messages are kept
error_msg_of_last_three(error_messages) ==
    IF error_messages # <<>>
    THEN SubSeq(error_messages,
                IF Len(error_messages) < MaxMessages
                THEN 1 ELSE Len(error_messages) - MaxMessages + 1,
                Len(error_messages))
    ELSE None

\* error_msg of execute_task
error_msg(error_messages) ==
    IF error_messages # <<>>
    THEN SubSeq(error_messages, 1, IF Len(error_messages) < MaxMessages
                                   THEN Len(error_messages) ELSE MaxMessages)
    ELSE None

NoJobs == [create |-> None, check |-> None]

-----------------------------------------------------------------------------
(* State after construction: module import builds db_manager and task_scheduler *)

\* the configuration row found in data/tasks.db: the defaults, but for a
\* default_workflow_count of 1
StoredConfig ==
    SchedulerConfig(TRUE, DefaultAutoCreateTime, DefaultDelayHours, 1)

\* the rows found in data/tasks.db: none, or one task created an hour before
\* the process was started and still waiting
StoredTasks == {{}, {DailyTask(None, StoredConfig, StartTime - Hour)}}

Init ==
    /\ now = StartTime
    /\ tasks \in StoredTasks
    /\ dbConfig = StoredConfig
    /\ config = dbConfig
    /\ is_running = FALSE
    /\ jobs = NoJobs
    /\ loops = EmptyBag
    /\ workers = EmptyBag
    /\ current_task_id = None
    /\ calls = 0
    /\ log = <<>>

\* the log after one more call
Logged(op, arg) ==
    LET all == Append(log, [op |-> op, arg |-> arg])
    IN  IF Len(all) > 2 THEN Tail(all) ELSE all

-----------------------------------------------------------------------------
(* The clock *)

\* an execute_task thread between two awaits runs without the clock moving on:
\* time passes only while every thread sleeps or awaits run_workflow
Busy == \E w \in BagToSet(workers) : w.pc # "loop"

\* a _run_scheduler thread whose sleep has ended runs its pass of the while
\* loop before the next minute begins
Awake == \E wake \in BagToSet(loops) : now >= wake

\* a minute passes
TickMinute ==
    /\ ~Busy
    /\ ~Awake
    /\ (now - StartTime) % Hour < MaxMinutes
    /\ now' = now + Minute
    /\ UNCHANGED <<tasks, dbConfig, config, is_running, jobs, loops, workers, current_task_id, calls, log>>

\* an hour passes
TickHour ==
    /\ ~Busy
    /\ ~Awake
    /\ (now - StartTime) \div Hour < MaxHours
    /\ now' = now + Hour
    /\ UNCHANGED <<tasks, dbConfig, config, is_running, jobs, loops, workers, current_task_id, calls, log>>

-----------------------------------------------------------------------------
(* Operations called from the task management page *)

CountArgs == {None} \cup {Some(n) : n \in Counts}

\* create_daily_task(workflow_count)
create_daily_task(count) ==
    /\ calls < MaxCalls
    /\ calls' = calls + 1
    /\ log' = Logged("create_daily_task", count)
    /\ tasks' = save_task(tasks, DailyTask(count, config, now))
    /\ UNCHANGED <<now, dbConfig, config, is_running, jobs, loops, workers, current_task_id>>

\* create_immediate_task(workflow_count), called at second sec of the minute
create_immediate_task(count, sec) ==
    /\ calls < MaxCalls
    /\ calls' = calls + 1
    /\ log' = Logged("create_immediate_task", <<count, sec>>)
    /\ tasks' = save_task(tasks, ImmediateTask(count, sec, now))
    /\ UNCHANGED <<now, dbConfig, config, is_running, jobs, loops, workers, current_task_id>>

\* cancel_task(task_id)
cancel_task(id) ==
    /\ calls < MaxCalls
    /\ calls' = calls + 1
    /\ log' = Logged("cancel_task", id)
    /\ tasks' = update_task_status(tasks, id, CANCELLED, <<>>, now)
    /\ UNCHANGED <<now, dbConfig, config, is_running, jobs, loops, workers, current_task_id>>

\* delete_task(task_id)
DeleteTask(id) ==
    /\ calls < MaxCalls
    /\ calls' = calls + 1
    /\ log' = Logged("delete_task", id)
    /\ tasks' = delete_task(tasks, id)
    /\ UNCHANGED <<now, dbConfig, config, is_running, jobs, loops, workers, current_task_id>>

\* clean_old_tasks(days)
clean_old_tasks(days) ==
    /\ calls < MaxCalls
    /\ calls' = calls + 1
    /\ log' = Logged("clean_old_tasks", days)
    /\ tasks' = delete_old_tasks(tasks, days, now)
    /\ UNCHANGED <<now, dbConfig, config, is_running, jobs, loops, workers, current_task_id>>

\* execute_task_immediately that starts a thread only for a Pending task
\* whose execute time has come, as _check_and_execute_tasks does
execute_task_immediately_when_due(id) ==
    /\ calls < MaxCalls
    /\ calls' = calls + 1
    /\ log' = Logged("execute_task_immediately", id)
    /\ workers' = IF \E r \in tasks : /\ r.id = id
                                      /\ r.status = PENDING
                                      /\ now >= task_execute_time(r, config)
                  THEN Spawn(workers, id, "manual")
                  ELSE workers
    /\ UNCHANGED <<now, tasks, dbConfig, config, is_running, jobs, loops, current_task_id>>

\* execute_task_immediately(task_id)
execute_task_immediately(id) ==
    /\ calls < MaxCalls
    /\ calls' = calls + 1
    /\ log' = Logged("execute_task_immediately", id)
    /\ workers' = Spawn(workers, id, "manual")
    /\ UNCHANGED <<now, tasks, dbConfig, config, is_running, jobs, loops, current_task_id>>

\* the jobs start_scheduler registers
StartedJobs(cfg, clock) ==
    [create |-> IF cfg.auto_create_enabled
                THEN Some(DayAt(cfg.auto_create_time, clock)) ELSE None,
     check |-> Some(clock + Minute)]

\* start_scheduler()
start_scheduler ==
    /\ ~is_running
    /\ calls < MaxCalls
    /\ calls' = calls + 1
    /\ log' = Logged("start_scheduler", None)
    /\ jobs' = StartedJobs(config, now)
    /\ is_running' = TRUE
    /\ loops' = loops (+) SetToBag({now})
    /\ UNCHANGED <<now, tasks, dbConfig, config, workers, current_task_id>>

\* stop_scheduler()
stop_scheduler ==
    /\ is_running
    /\ calls < MaxCalls
    /\ calls' = calls + 1
    /\ log' = Logged("stop_scheduler", None)
    /\ is_running' = FALSE
    /\ jobs' = NoJobs
    /\ UNCHANGED <<now, tasks, dbConfig, config, loops, workers, current_task_id>>

\* the keyword arguments update_config is called with
DelayUpdates == {[k \in {"auto_execute_delay_hours"} |-> d] : d \in DelayChoices}
EnabledUpdates == {[k \in {"auto_create_enabled"} |-> b] : b \in BOOLEAN}
ConfigUpdates == DelayUpdates \cup EnabledUpdates

\* the setattr loop of update_config
UpdatedConfig(cfg, kw) ==
    [k \in DOMAIN cfg |-> IF k \in DOMAIN kw THEN kw[k] ELSE cfg[k]]

\* update_config that stops a running scheduler and does not start it again
update_config_stop_only(kw) ==
    /\ calls < MaxCalls
    /\ calls' = calls + 1
    /\ log' = Logged("update_config", kw)
    /\ config' = UpdatedConfig(config, kw)
    /\ dbConfig' = config'
    /\ is_running' = FALSE
    /\ jobs' = NoJobs
    /\ UNCHANGED <<now, tasks, loops, workers, current_task_id>>

\* update_config(**kwargs)
update_config(kw) ==
    /\ calls < MaxCalls
    /\ calls' = calls + 1
    /\ log' = Logged("update_config", kw)
    /\ config' = UpdatedConfig(config, kw)
    /\ dbConfig' = config'
    /\ IF is_running
       THEN /\ jobs' = StartedJobs(config', now)
            /\ loops' = loops (+) SetToBag({now})
       ELSE UNCHANGED <<jobs, loops>>
    /\ UNCHANGED <<now, tasks, is_running, workers, current_task_id>>

-----------------------------------------------------------------------------
(* The polling loop: one pass of the while loop of _run_scheduler *)

JobDue(job, clock) == job # None /\ clock >= job[1]

\* _auto_create_task(), run by the daily job
auto_create_task(rows, cfg, clock) ==
    IF cfg.auto_create_enabled
    THEN save_task(rows, DailyTask(None, cfg, clock))
    ELSE rows

\* the rows after the jobs of run_pending that come before the check job
RowsAfterCreateJob ==
    IF JobDue(jobs.create, now) THEN auto_create_task(tasks, config, now) ELSE tasks

\* the jobs after run_pending: each job that ran is scheduled again
JobsAfterRun ==
    [create |-> IF JobDue(jobs.create, now)
                THEN Some(((now \div Day) + 1) * Day + (jobs.create[1] % Day))
                ELSE jobs.create,
     check |-> IF JobDue(jobs.check, now) THEN Some(now + Minute) ELSE jobs.check]

\* variant of check_and_execute_tasks: the for loop without its break, a
\* thread is started for every pending task that is due
dispatch_every_due(list, cfg, clock, bag) ==
    LET pending == PendingOf(list)
        due == {pending[i].id : i \in {j \in DOMAIN pending :
                                          clock >= task_execute_time(pending[j], cfg)}}
    IN  bag (+) SetToBag({NewWorker(id, "poller") : id \in due})

\* _check_and_execute_tasks() on one loaded list: the workers after it
check_and_execute_tasks(list, cfg, clock, bag) ==
    LET due == FirstDue(PendingOf(list), cfg, clock)
    IN  IF due = None THEN bag ELSE Spawn(bag, due[1].id, "poller")

\* a _run_scheduler thread whose sleep ended at wake tests is_running, and
\* either ends or calls run_pending and sleeps 60 seconds
LoopWake(wake) ==
    /\ wake \in BagToSet(loops)
    /\ now >= wake
    /\ IF ~is_running
       THEN /\ loops' = loops (-) SetToBag({wake})
            /\ UNCHANGED <<tasks, jobs, workers>>
       ELSE /\ tasks' = RowsAfterCreateJob
            /\ jobs' = JobsAfterRun
            /\ IF JobDue(jobs.check, now)
               THEN \E list \in load_tasks(tasks') :
                        workers' = check_and_execute_tasks(list, config, now, workers)
               ELSE UNCHANGED workers
            /\ loops' = (loops (-) SetToBag({wake})) (+) SetToBag({now + Minute})
    /\ UNCHANGED <<now, dbConfig, config, is_running, current_task_id, calls, log>>

\* variant of LoopWakeCaught: the jobs without their try/except, the
\* exception of the failing step leaves run_pending and ends the thread;
\* the job that raised is not scheduled again
LoopWakeUncaught(wake) ==
    /\ wake \in BagToSet(loops)
    /\ now >= wake
    /\ is_running
    /\ \/ /\ JobDue(jobs.create, now)
          /\ tasks' \in {tasks, RowsAfterCreateJob}
          /\ UNCHANGED <<jobs, workers>>
       \/ /\ JobDue(jobs.check, now)
          /\ tasks' = RowsAfterCreateJob
          /\ jobs' = [jobs EXCEPT !.create = JobsAfterRun.create]
          /\ \E list \in load_tasks(tasks') :
                 workers' \in {workers, check_and_execute_tasks(list, config, now, workers)}
    /\ loops' = loops (-) SetToBag({wake})
    /\ UNCHANGED <<now, dbConfig, config, is_running, current_task_id, calls, log>>

\* a pass of the while loop in which a step fails: save_task or load_tasks
\* fails inside DatabaseManager and returns False or [], or a statement of
\* _auto_create_task or of _check_and_execute_tasks raises and the except
\* clause of the job catches it.  The task of the create job is saved or is
\* not, the thread of the check job is started or is not; both jobs return,
\* are scheduled again, and the loop thread sleeps 60 seconds
LoopWakeCaught(wake) ==
    /\ wake \in BagToSet(loops)
    /\ now >= wake
    /\ is_running
    /\ JobDue(jobs.create, now) \/ JobDue(jobs.check, now)
    /\ tasks' \in {tasks, RowsAfterCreateJob}
    /\ jobs' = JobsAfterRun
    /\ IF JobDue(jobs.check, now)
       THEN \E list \in load_tasks(tasks') :
                workers' \in {workers, check_and_execute_tasks(list, config, now, workers)}
       ELSE UNCHANGED workers
    /\ loops' = (loops (-) SetToBag({wake})) (+) SetToBag({now + Minute})
    /\ UNCHANGED <<now, dbConfig, config, is_running, current_task_id, calls, log>>

-----------------------------------------------------------------------------
(* execute_task(task_id), one thread per call *)

\* the bag with frame w replaced by frame w2
Replace(bag, w, w2) == (bag (-) SetToBag({w})) (+) SetToBag({w2})

\* the bag with the thread of frame w ended
Ended(bag, w) == bag (-) SetToBag({w})

\* next((t for t in tasks if t.id == task_id), None)
FindTask(list, id) ==
    LET hits == SelectSeq(list, LAMBDA t : t.id = id)
    IN  IF hits = <<>> THEN None ELSE Some(Head(hits))

\* lines 234-235, to the read of update_task_status(task_id, RUNNING)
WStart(w) ==
    /\ w \in BagToSet(workers)
    /\ w.pc = "start"
    /\ current_task_id' = w.task_id
    /\ LET row == get_task_by_id(w.task_id)
       IN  workers' = Replace(workers, w,
               IF row = None
               THEN [w EXCEPT !.pc = "load"]
               ELSE [w EXCEPT !.pc = "set_running",
                              !.task = Some(UpdatedTask(row[1], RUNNING, <<>>, now))])
    /\ UNCHANGED <<now, tasks, dbConfig, config, is_running, jobs, loops, calls, log>>

\* line 211 of update_task_status(task_id, RUNNING): the write
WSetRunning(w) ==
    /\ w \in BagToSet(workers)
    /\ w.pc = "set_running"
    /\ tasks' = save_task(tasks, w.task[1])
    /\ workers' = Replace(workers, w, [w EXCEPT !.pc = "load", !.task = None])
    /\ UNCHANGED <<now, dbConfig, config, is_running, jobs, loops, current_task_id, calls, log>>

\* lines 237-245: the task is loaded; the thread returns when it is not there
WLoad(w) ==
    /\ w \in BagToSet(workers)
    /\ w.pc = "load"
    /\ \E list \in load_tasks(tasks) :
           LET task == FindTask(list, w.task_id)
           IN  workers' = IF task = None
                          THEN Ended(workers, w)
                          ELSE Replace(workers, w,
                                   [w EXCEPT !.pc = "loop",
                                             !.workflow_count = task[1].workflow_count])
    /\ UNCHANGED <<now, tasks, dbConfig, config, is_running, jobs, loops, current_task_id, calls, log>>

\* what one pass of the for loop ends with: run_workflow and
\* asave_result_to_file return ("ok"), run_workflow raises ("fail"),
\* run_workflow returns and asave_result_to_file raises ("save_fail"), or the
\* handler of such an exception raises itself ("fatal")
Outcomes == {"ok", "fail", "save_fail", "fatal"}

\* the passes whose exception the inner except clause handles
Failures == {"fail", "save_fail"}

\* variant of Iteration: a pass that failed is run again, i stays
iteration_repeated_on_failure(w, outcome) ==
    IF outcome = "ok"
    THEN [w EXCEPT !.i = w.i + 1, !.success_count = w.success_count + 1]
    ELSE IF outcome \in Failures
    THEN [w EXCEPT !.error_count = w.error_count + 1,
                   !.error_messages = Append(w.error_messages, <<w.i + 1, outcome>>)]
    ELSE [w EXCEPT !.error_count = w.error_count + 1, !.pc = "fatal"]

\* variant of Iteration: success_count += 1 stands before the await of
\* asave_result_to_file
iteration_counting_before_save(w, outcome) ==
    IF outcome = "ok"
    THEN [w EXCEPT !.i = w.i + 1, !.success_count = w.success_count + 1]
    ELSE IF outcome = "fail"
    THEN [w EXCEPT !.i = w.i + 1, !.error_count = w.error_count + 1,
                   !.error_messages = Append(w.error_messages, <<w.i + 1, outcome>>)]
    ELSE IF outcome = "save_fail"
    THEN [w EXCEPT !.i = w.i + 1, !.success_count = w.success_count + 1,
                   !.error_count = w.error_count + 1,
                   !.error_messages = Append(w.error_messages, <<w.i + 1, outcome>>)]
    ELSE [w EXCEPT !.error_count = w.error_count + 1, !.pc = "fatal"]

\* lines 248-260: one pass of the for loop
Iteration(w, outcome) ==
    IF outcome = "ok"
    THEN [w EXCEPT !.i = w.i + 1, !.success_count = w.success_count + 1]
    ELSE IF outcome \in Failures
    THEN [w EXCEPT !.i = w.i + 1, !.error_count = w.error_count + 1,
                   !.error_messages = Append(w.error_messages, <<w.i + 1, outcome>>)]
    ELSE [w EXCEPT !.error_count = w.error_count + 1, !.pc = "fatal"]

WIterate(w, outcome) ==
    /\ w \in BagToSet(workers)
    /\ w.pc = "loop"
    /\ w.i < w.workflow_count
    /\ workers' = Replace(workers, w, Iteration(w, outcome))
    /\ UNCHANGED <<now, tasks, dbConfig, config, is_running, jobs, loops, current_task_id, calls, log>>

\* the keyword arguments of the call at lines 266-272
CompleteKw(w) ==
    [success_count |-> w.success_count, error_count |-> w.error_count,
     error_message |-> error_msg(w.error_messages)]

\* variant of CompleteStatus: Completed whatever the error count is
complete_status_ignoring_errors(w) == COMPLETED

\* status of line 263
CompleteStatus(w) == IF w.error_count = 0 THEN COMPLETED ELSE FAILED

\* variant of FatalKw: the call without error_message=str(e)
fatal_kw_without_message == <<>>

\* the keyword arguments of the call at lines 275-279
FatalKw == [error_message |-> <<0>>]

\* the read of a final update_task_status: the task is not there and the
\* thread ends through finally, or the updated task object waits to be saved
FinalRead(w, status, kw) ==
    LET row == get_task_by_id(w.task_id)
    IN  IF row = None
        THEN /\ workers' = Ended(workers, w)
             /\ current_task_id' = None
        ELSE /\ workers' = Replace(workers, w,
                    [w EXCEPT !.pc = "finish",
                              !.task = Some(UpdatedTask(row[1], status, kw, now))])
             /\ UNCHANGED current_task_id

\* lines 262-272 after the last pass, to the read of update_task_status
WComplete(w) ==
    /\ w \in BagToSet(workers)
    /\ w.pc = "loop"
    /\ w.i = w.workflow_count
    /\ FinalRead(w, CompleteStatus(w), CompleteKw(w))
    /\ UNCHANGED <<now, tasks, dbConfig, config, is_running, jobs, loops, calls, log>>

\* lines 274-279: except Exception, to the read of update_task_status
WFatal(w) ==
    /\ w \in BagToSet(workers)
    /\ w.pc = "fatal"
    /\ FinalRead(w, FAILED, FatalKw)
    /\ UNCHANGED <<now, tasks, dbConfig, config, is_running, jobs, loops, calls, log>>

\* variant of WFinish: the thread ends without the write of the final
\* update_task_status
finish_without_write(w) ==
    /\ w \in BagToSet(workers)
    /\ w.pc = "finish"
    /\ workers' = Ended(workers, w)
    /\ current_task_id' = None
    /\ UNCHANGED <<now, tasks, dbConfig, config, is_running, jobs, loops, calls, log>>

\* line 211 of the final update_task_status, and finally (line 281)
WFinish(w) ==
    /\ w \in BagToSet(workers)
    /\ w.pc = "finish"
    /\ tasks' = save_task(tasks, w.task[1])
    /\ workers' = Ended(workers, w)
    /\ current_task_id' = None
    /\ UNCHANGED <<now, dbConfig, config, is_running, jobs, loops, calls, log>>

-----------------------------------------------------------------------------

Next ==
    \/ TickMinute
    \/ TickHour
    \/ \E c \in CountArgs : create_daily_task(c)
    \/ \E c \in CountArgs, sec \in Seconds : create_immediate_task(c, sec)
    \/ \E id \in StoredIds : cancel_task(id)
    \/ \E id \in StoredIds : DeleteTask(id)
    \/ \E days \in DaysChoices : clean_old_tasks(days)
    \/ \E id \in StoredIds : execute_task_immediately(id)
    \/ start_scheduler
    \/ stop_scheduler
    \/ \E kw \in ConfigUpdates : update_config(kw)
    \/ \E wake \in BagToSet(loops) : LoopWake(wake)
    \/ \E wake \in BagToSet(loops) : LoopWakeCaught(wake)
    \/ \E w \in BagToSet(workers) : WStart(w)
    \/ \E w \in BagToSet(workers) : WSetRunning(w)
    \/ \E w \in BagToSet(workers) : WLoad(w)
    \/ \E w \in BagToSet(workers), o \in Outcomes : WIterate(w, o)
    \/ \E w \in BagToSet(workers) : WComplete(w)
    \/ \E w \in BagToSet(workers) : WFatal(w)
    \/ \E w \in BagToSet(workers) : WFinish(w)

Spec == Init /\ [][Next]_vars

-----------------------------------------------------------------------------
(* The polling loop with the calls that create tasks and change the delay:  *)
(* every execute_task thread is one the loop started                        *)

PollNext ==
    \/ TickMinute
    \/ TickHour
    \/ create_daily_task(None)
    \/ \E sec \in Seconds : create_immediate_task(Some(1), sec)
    \/ start_scheduler
    \/ \E kw \in DelayUpdates : update_config(kw)
    \/ \E wake \in BagToSet(loops) : LoopWake(wake)
    \/ \E w \in BagToSet(workers) : WStart(w)
    \/ \E w \in BagToSet(workers) : WSetRunning(w)
    \/ \E w \in BagToSet(workers) : WLoad(w)
    \/ \E w \in BagToSet(workers), o \in Outcomes : WIterate(w, o)
    \/ \E w \in BagToSet(workers) : WComplete(w)
    \/ \E w \in BagToSet(workers) : WFatal(w)
    \/ \E w \in BagToSet(workers) : WFinish(w)

SpecPoll == Init /\ [][PollNext]_vars

-----------------------------------------------------------------------------
(* The polling loop and test tasks of 3 workflows                           *)

ImmediateNext ==
    \/ TickMinute
    \/ TickHour
    \/ \E sec \in Seconds : create_immediate_task(Some(3), sec)
    \/ start_scheduler
    \/ \E wake \in BagToSet(loops) : LoopWake(wake)
    \/ \E w \in BagToSet(workers) : WStart(w)
    \/ \E w \in BagToSet(workers) : WSetRunning(w)
    \/ \E w \in BagToSet(workers) : WLoad(w)
    \/ \E w \in BagToSet(workers), o \in Outcomes : WIterate(w, o)
    \/ \E w \in BagToSet(workers) : WComplete(w)
    \/ \E w \in BagToSet(workers) : WFatal(w)
    \/ \E w \in BagToSet(workers) : WFinish(w)

SpecImmediate == Init /\ [][ImmediateNext]_vars

-----------------------------------------------------------------------------
(* The polling loop started over a backlog: the process was down while the  *)
(* tasks of the last two days became due                                    *)

\* the rows found in data/tasks.db: two daily tasks, created 9 and 10 hours
\* before the process was started and still waiting
OverdueTasks ==
    {DailyTask(None, StoredConfig, StartTime - 9 * Hour),
     DailyTask(None, StoredConfig, StartTime - 10 * Hour)}

InitBacklog ==
    /\ now = StartTime
    /\ tasks = OverdueTasks
    /\ dbConfig = StoredConfig
    /\ config = dbConfig
    /\ is_running = FALSE
    /\ jobs = NoJobs
    /\ loops = EmptyBag
    /\ workers = EmptyBag
    /\ current_task_id = None
    /\ calls = 0
    /\ log = <<>>

BacklogNext ==
    \/ TickMinute
    \/ TickHour
    \/ start_scheduler
    \/ \E wake \in BagToSet(loops) : LoopWake(wake)
    \/ \E wake \in BagToSet(loops) : LoopWakeCaught(wake)
    \/ \E w \in BagToSet(workers) : WStart(w)
    \/ \E w \in BagToSet(workers) : WSetRunning(w)
    \/ \E w \in BagToSet(workers) : WLoad(w)
    \/ \E w \in BagToSet(workers), o \in Outcomes : WIterate(w, o)
    \/ \E w \in BagToSet(workers) : WComplete(w)
    \/ \E w \in BagToSet(workers) : WFatal(w)
    \/ \E w \in BagToSet(workers) : WFinish(w)

SpecBacklog == InitBacklog /\ [][BacklogNext]_vars

\* the rows found in data/tasks.db: one overdue task of one workflow more
\* than the error messages execute_task keeps
LongCount == MaxMessages + 1

LongTask == {DailyTask(Some(LongCount), StoredConfig, StartTime - 9 * Hour)}

InitLong ==
    /\ now = StartTime
    /\ tasks = LongTask
    /\ dbConfig = StoredConfig
    /\ config = dbConfig
    /\ is_running = FALSE
    /\ jobs = NoJobs
    /\ loops = EmptyBag
    /\ workers = EmptyBag
    /\ current_task_id = None
    /\ calls = 0
    /\ log = <<>>

SpecLong == InitLong /\ [][BacklogNext]_vars

\* the backlog with the page's cancel button in use
CancelNext ==
    \/ BacklogNext
    \/ \E id \in StoredIds : cancel_task(id)

SpecCancel == InitBacklog /\ [][CancelNext]_vars

-----------------------------------------------------------------------------
(* The page's buttons on one stored task, the scheduler not started         *)

ManualNext ==
    \/ TickMinute
    \/ TickHour
    \/ \E id \in StoredIds : cancel_task(id)
    \/ \E id \in StoredIds : execute_task_immediately(id)
    \/ \E w \in BagToSet(workers) : WStart(w)
    \/ \E w \in BagToSet(workers) : WSetRunning(w)
    \/ \E w \in BagToSet(workers) : WLoad(w)
    \/ \E w \in BagToSet(workers), o \in Outcomes : WIterate(w, o)
    \/ \E w \in BagToSet(workers) : WComplete(w)
    \/ \E w \in BagToSet(workers) : WFatal(w)
    \/ \E w \in BagToSet(workers) : WFinish(w)

SpecManual == Init /\ [][ManualNext]_vars

\* a step of an execute_task thread
WorkerStep ==
    \E w \in BagToSet(workers) :
        \/ WStart(w)
        \/ WSetRunning(w)
        \/ WLoad(w)
        \/ \E o \in Outcomes : WIterate(w, o)
        \/ WComplete(w)
        \/ WFatal(w)
        \/ WFinish(w)

\* the same where every started thread is run on and every await of
\* run_workflow and asave_result_to_file returns or raises: a thread that can
\* take a step is not left waiting forever
SpecManualFair == Init /\ [][ManualNext]_vars /\ WF_vars(WorkerStep)

-----------------------------------------------------------------------------
(* The polling loop and stop_scheduler, called from the page's thread while *)
(* the _run_scheduler thread may be anywhere in its pass: the pass is taken *)
(* in one step, or in two with the page's call in between                   *)

\* the Thread object of lines 350-354, built and not yet started
UnstartedThread(id) == [NewWorker(id, "poller") EXCEPT !.pc = "unstarted"]

\* the Thread objects a pass in progress has built
Unstarted == {w \in BagToSet(workers) : w.pc = "unstarted"}

\* the overdue tasks were found and the page has started the scheduler
InitStoppable ==
    /\ now = StartTime
    /\ tasks = OverdueTasks
    /\ dbConfig = StoredConfig
    /\ config = dbConfig
    /\ is_running = TRUE
    /\ jobs = StartedJobs(StoredConfig, StartTime)
    /\ loops = SetToBag({StartTime})
    /\ workers = EmptyBag
    /\ current_task_id = None
    /\ calls = 0
    /\ log = <<>>

\* a pass of the while loop from the test of is_running (line 316) to the
\* Thread object of the due task (line 354)
PassToThread(wake) ==
    /\ wake \in BagToSet(loops)
    /\ now >= wake
    /\ is_running
    /\ Unstarted = {}
    /\ JobDue(jobs.check, now)
    /\ tasks' = RowsAfterCreateJob
    /\ \E list \in load_tasks(tasks') :
           LET due == FirstDue(PendingOf(list), config, now)
           IN  /\ due # None
               /\ workers' = workers (+) SetToBag({UnstartedThread(due[1].id)})
    /\ UNCHANGED <<now, dbConfig, config, is_running, jobs, loops, current_task_id, calls, log>>

\* the rest of that pass: task_thread.start() (line 355), the jobs that ran
\* are scheduled again if they are still registered, and time.sleep(60)
ThreadStart(wake) ==
    /\ wake \in BagToSet(loops)
    /\ now >= wake
    /\ \E w \in Unstarted :
           workers' = Replace(workers, w, [w EXCEPT !.pc = "start"])
    /\ jobs' = JobsAfterRun
    /\ loops' = (loops (-) SetToBag({wake})) (+) SetToBag({now + Minute})
    /\ UNCHANGED <<now, tasks, dbConfig, config, is_running, current_task_id, calls, log>>

StopNext ==
    \/ TickMinute
    \/ TickHour
    \/ stop_scheduler
    \/ \E wake \in BagToSet(loops) : Unstarted = {} /\ LoopWake(wake)
    \/ \E wake \in BagToSet(loops) : PassToThread(wake)
    \/ \E wake \in BagToSet(loops) : ThreadStart(wake)
    \/ \E w \in BagToSet(workers) : WStart(w)
    \/ \E w \in BagToSet(workers) : WSetRunning(w)
    \/ \E w \in BagToSet(workers) : WLoad(w)
    \/ \E w \in BagToSet(workers), o \in Outcomes : WIterate(w, o)
    \/ \E w \in BagToSet(workers) : WComplete(w)
    \/ \E w \in BagToSet(workers) : WFatal(w)
    \/ \E w \in BagToSet(workers) : WFinish(w)

SpecStop == InitStoppable /\ [][StopNext]_vars

-----------------------------------------------------------------------------
(* The polling loop over one overdue task while the page keeps creating     *)
(* test tasks. The run has no end, so the times of the model are kept       *)
(* relative to the present minute: when a minute passes, now keeps its      *)
(* value and every time of the last Window minutes moves one minute back.   *)
(* Due times and the order of created_at are differences of times and stay  *)
(* as they are; times further back than Window are not told apart           *)

Window == 3

\* a time, seen one minute later
Back(t) == IF t > now - Window * Minute THEN t - Minute ELSE t

\* the id task_<time> or test_<time>, seen one minute later
BackId(id) == IF id = None THEN None ELSE <<id[1], Back(id[2]), id[3]>>

\* a timestamp column, seen one minute later
BackCol(col) == IF col = None THEN None ELSE Some(Back(col[1]))

\* a stored row, seen one minute later
BackRow(r) ==
    [r EXCEPT !.id = BackId(r.id),
              !.name = [r.name EXCEPT ![2] = Back(r.name[2])],
              !.scheduled_time = Back(r.id[2]) % Day,
              !.created_at = Back(r.created_at),
              !.started_at = BackCol(r.started_at),
              !.completed_at = BackCol(r.completed_at)]

\* the frame of an execute_task thread, seen one minute later
BackFrame(w) == [w EXCEPT !.task_id = BackId(w.task_id)]

\* the configuration row found in data/tasks.db: automatic creation was
\* switched off
ManualConfig ==
    SchedulerConfig(FALSE, DefaultAutoCreateTime, DefaultDelayHours, 1)

\* the overdue task found in data/tasks.db, created 9 hours before
OverdueTask == DailyTask(None, ManualConfig, StartTime - 9 * Hour)

\* the task management page was opened and has started the scheduler
InitArrival ==
    /\ now = StartTime
    /\ tasks = {OverdueTask}
    /\ dbConfig = ManualConfig
    /\ config = dbConfig
    /\ is_running = TRUE
    /\ jobs = StartedJobs(ManualConfig, StartTime)
    /\ loops = SetToBag({StartTime})
    /\ workers = EmptyBag
    /\ current_task_id = None
    /\ calls = 0
    /\ log = <<>>

\* the test tasks stored
TestRows == {r \in tasks : IsTestId(r.id)}

\* a minute passes; calls and log are those of the present minute. The run is
\* followed as long as the stored ids are told apart, which they are while
\* finished test tasks are deleted before a second one is Window minutes old
MinutePasses ==
    /\ ~Busy
    /\ ~Awake
    /\ \A r1 \in tasks, r2 \in tasks : BackId(r1.id) = BackId(r2.id) => r1 = r2
    /\ tasks' = {BackRow(r) : r \in tasks}
    /\ workers' = BagOfAll(BackFrame, workers)
    /\ loops' = BagOfAll(Back, loops)
    /\ jobs' = [create |-> BackCol(jobs.create), check |-> BackCol(jobs.check)]
    /\ current_task_id' = BackId(current_task_id)
    /\ calls' = 0
    /\ log' = <<>>
    /\ UNCHANGED <<now, dbConfig, config, is_running>>

\* the page is used to create a test task, once a minute at most and earlier
\* in the minute than the polling loop makes its pass, so that the task is due
\* at the pass of the next minute; a third test task is created only after
\* one of the two before was deleted
CreateTestTask ==
    /\ Awake
    /\ Cardinality(TestRows) <= 1
    /\ \A r \in TestRows : r.created_at < now
    /\ \E sec \in Seconds : create_immediate_task(Some(1), sec)

\* the page is used to delete a task that has come to its end
DeleteFinishedTask ==
    \E r \in tasks : r.status \in {COMPLETED, FAILED} /\ DeleteTask(r.id)

ArrivalNext ==
    \/ MinutePasses
    \/ CreateTestTask
    \/ DeleteFinishedTask
    \/ \E r \in tasks : r.status \in {COMPLETED, FAILED} /\ DeleteTask(r.id)
    \/ \E wake \in BagToSet(loops) : LoopWake(wake)
    \/ \E w \in BagToSet(workers) : WStart(w)
    \/ \E w \in BagToSet(workers) : WSetRunning(w)
    \/ \E w \in BagToSet(workers) : WLoad(w)
    \/ \E w \in BagToSet(workers), o \in Outcomes : WIterate(w, o)
    \/ \E w \in BagToSet(workers) : WComplete(w)
    \/ \E w \in BagToSet(workers) : WFatal(w)
    \/ \E w \in BagToSet(workers) : WFinish(w)

\* time passes, the _run_scheduler thread is run when its sleep has ended,
\* and the execute_task threads are run on
SpecArrival ==
    /\ InitArrival
    /\ [][ArrivalNext]_vars
    /\ WF_vars(MinutePasses)
    /\ WF_vars(\E wake \in BagToSet(loops) : LoopWake(wake))
    /\ WF_vars(WorkerStep)

\* the same with the page's delete button in use
DeleteNext ==
    \/ ManualNext
    \/ \E id \in StoredIds : DeleteTask(id)

SpecDelete == Init /\ [][DeleteNext]_vars

-----------------------------------------------------------------------------
(* The page's create buttons and its default count, the scheduler not       *)
(* started                                                                  *)

CountUpdates == {[k \in {"default_workflow_count"} |-> n] : n \in {2}}

CreateNext ==
    \/ TickMinute
    \/ TickHour
    \/ \E c \in CountArgs : create_daily_task(c)
    \/ \E c \in CountArgs, sec \in Seconds : create_immediate_task(c, sec)
    \/ \E kw \in CountUpdates : update_config(kw)

SpecCreate == Init /\ [][CreateNext]_vars

-----------------------------------------------------------------------------
(* The scheduler after the task management page was opened: main() of the   *)
(* page calls start_scheduler when the scheduler is not running             *)

InitStarted ==
    /\ now = StartTime
    /\ tasks \in StoredTasks
    /\ dbConfig = StoredConfig
    /\ config = dbConfig
    /\ is_running = TRUE
    /\ jobs = StartedJobs(StoredConfig, StartTime)
    /\ loops = SetToBag({StartTime})
    /\ workers = EmptyBag
    /\ current_task_id = None
    /\ calls = 0
    /\ log = <<>>

StartedNext ==
    \/ TickMinute
    \/ TickHour
    \/ \E c \in CountArgs : create_daily_task(c)
    \/ \E id \in StoredIds : execute_task_immediately(id)
    \/ \E wake \in BagToSet(loops) : LoopWake(wake)
    \/ \E w \in BagToSet(workers) : WStart(w)
    \/ \E w \in BagToSet(workers) : WSetRunning(w)
    \/ \E w \in BagToSet(workers) : WLoad(w)
    \/ \E w \in BagToSet(workers), o \in Outcomes : WIterate(w, o)
    \/ \E w \in BagToSet(workers) : WComplete(w)
    \/ \E w \in BagToSet(workers) : WFatal(w)
    \/ \E w \in BagToSet(workers) : WFinish(w)

SpecStarted == InitStarted /\ [][StartedNext]_vars

\* the started scheduler left to itself but for changes of the configuration
AutoNext ==
    \/ TickMinute
    \/ TickHour
    \/ \E kw \in ConfigUpdates : update_config(kw)
    \/ \E wake \in BagToSet(loops) : LoopWake(wake)
    \/ \E w \in BagToSet(workers) : WStart(w)
    \/ \E w \in BagToSet(workers) : WSetRunning(w)
    \/ \E w \in BagToSet(workers) : WLoad(w)
    \/ \E w \in BagToSet(workers), o \in Outcomes : WIterate(w, o)
    \/ \E w \in BagToSet(workers) : WComplete(w)
    \/ \E w \in BagToSet(workers) : WFatal(w)
    \/ \E w \in BagToSet(workers) : WFinish(w)

SpecAuto == InitStarted /\ [][AutoNext]_vars

-----------------------------------------------------------------------------
(* DatabaseManager called on its own: any task object may be saved          *)

\* the ids of the task objects saved
InputIds == {<<"task", StartTime + 7 * Hour, 0>>, <<"test", StartTime + Minute, 30>>}

\* created_at and completed_at of the task objects saved: created and
\* completed long ago, created long ago and completed lately, created lately
\* and never completed
InputTimes ==
    {[created_at |-> StartTime - 40 * Day, completed_at |-> Some(StartTime - 35 * Day)],
     [created_at |-> StartTime - 40 * Day, completed_at |-> Some(StartTime - Hour)],
     [created_at |-> StartTime - Hour, completed_at |-> None]}

\* the task objects saved: one that has run if it was ever completed, one
\* that has not if it was not
TaskInputs ==
    {[id |-> id, name |-> id, scheduled_time |-> id[2] % Day,
      workflow_count |-> IF tm.completed_at = None THEN 1 ELSE 3,
      status |-> st, created_at |-> tm.created_at,
      started_at |-> IF tm.completed_at = None THEN None ELSE Some(tm.created_at),
      completed_at |-> tm.completed_at,
      success_count |-> IF tm.completed_at = None THEN 0 ELSE 2,
      error_count |-> IF tm.completed_at = None THEN 0 ELSE 1,
      error_message |-> IF tm.completed_at = None THEN None ELSE << <<2, "fail">> >>] :
        id \in InputIds, st \in TaskStatus, tm \in InputTimes}

\* db_manager.save_task(task)
SaveTaskCall(task) ==
    /\ tasks' = save_task(tasks, task)
    /\ log' = Logged("save_task", task)
    /\ UNCHANGED <<now, dbConfig, config, is_running, jobs, loops, workers, current_task_id, calls>>

\* db_manager.delete_task(task_id)
DeleteTaskCall(id) ==
    /\ tasks' = delete_task(tasks, id)
    /\ log' = Logged("delete_task", id)
    /\ UNCHANGED <<now, dbConfig, config, is_running, jobs, loops, workers, current_task_id, calls>>

\* db_manager.delete_old_tasks(days)
DeleteOldTasksCall(days) ==
    /\ tasks' = delete_old_tasks(tasks, days, now)
    /\ log' = Logged("delete_old_tasks", days)
    /\ UNCHANGED <<now, dbConfig, config, is_running, jobs, loops, workers, current_task_id, calls>>

\* the methods of DatabaseManager that run a storage operation
StorageCalls ==
    {"save_task", "load_tasks", "get_task_by_id", "delete_task",
     "delete_old_tasks", "save_config", "get_task_statistics"}

\* the operations of TaskScheduler built on them
SchedulerCalls ==
    {"create_daily_task", "create_immediate_task", "update_task_status", "cancel_task"}

\* how a call ends: it returns value, or an exception leaves it
Returned(value) == [raised |-> FALSE, value |-> value]
Raised(call) == [raised |-> TRUE, value |-> call]

\* variant of storage_failure: the method without its try/except
storage_failure_uncaught(call) == Raised(call)

\* a method of DatabaseManager whose storage operation fails (sqlite3 raises
\* inside the try): what its except clause returns
storage_failure(call) ==
    Returned(CASE call \in {"save_task", "delete_task", "save_config"} -> FALSE
               [] call = "load_tasks" -> <<>>
               [] call = "get_task_by_id" -> None
               [] call = "delete_old_tasks" -> 0
               [] call = "get_task_statistics" ->
                      [total_tasks |-> 0, status_counts |-> <<>>, recent_tasks |-> 0])

\* the rest of a scheduler operation after the call of a DatabaseManager
\* method that ended with res: an exception goes on to the caller, otherwise
\* the operation returns value
Then(res, value) == IF res.raised THEN res ELSE Returned(value)

\* the end of create_daily_task and create_immediate_task after save_task
\* ended with res: the task is returned when save_task returned True,
\* otherwise the operation raises Exception
ReturnSaved(res, call, task) ==
    IF res.raised THEN res
    ELSE IF res.value = TRUE THEN Returned(task) ELSE Raised(call)

\* an operation of TaskScheduler while the storage operation under it fails:
\* the create operations raise when save_task returns False,
\* update_task_status finds no task and returns
scheduler_on_failure(call) ==
    CASE call = "create_daily_task" ->
             ReturnSaved(storage_failure("save_task"), call, DailyTask(None, config, now))
      [] call = "create_immediate_task" ->
             ReturnSaved(storage_failure("save_task"), call, ImmediateTask(None, 30, now))
      [] call \in {"update_task_status", "cancel_task"} ->
             Then(storage_failure("get_task_by_id"), None)

\* a call during which the storage operation fails: nothing is written
FailingCall(call) ==
    /\ log' = Logged("storage_failure",
                     [call |-> call,
                      result |-> IF call \in StorageCalls
                                 THEN storage_failure(call)
                                 ELSE scheduler_on_failure(call)])
    /\ UNCHANGED <<now, tasks, dbConfig, config, is_running, jobs, loops, workers, current_task_id, calls>>

StoreNext ==
    \/ \E task \in TaskInputs : SaveTaskCall(task)
    \/ \E id \in StoredIds : DeleteTaskCall(id)
    \/ \E days \in DaysChoices : DeleteOldTasksCall(days)

SpecStore == Init /\ [][StoreNext]_vars

-----------------------------------------------------------------------------
(* DatabaseManager from an empty data directory: in this specification      *)
(* dbConfig is the table scheduler_config, None while it has no row          *)

DefaultWorkflowCount == 70

\* the row of the INSERT in init_database
DefaultConfigRow ==
    SchedulerConfig(TRUE, DefaultAutoCreateTime, DefaultDelayHours, DefaultWorkflowCount)

\* variant of init_database: INSERT OR REPLACE in place of INSERT OR IGNORE
init_database_or_replace(row) == Some(DefaultConfigRow)

\* init_database() on table scheduler_config: CREATE TABLE IF NOT EXISTS,
\* then INSERT OR IGNORE of the row with id 1
init_database(row) == IF row = None THEN Some(DefaultConfigRow) ELSE row

\* UPDATE scheduler_config SET ... WHERE id = 1
save_config(row, cfg) == IF row = None THEN None ELSE Some(cfg)

\* the configurations saved
ConfigInputs == {StoredConfig, SchedulerConfig(FALSE, DefaultAutoCreateTime, 2, 3)}

InitEmptyDir ==
    /\ now = StartTime
    /\ tasks = {}
    /\ dbConfig = None
    /\ config = DefaultConfigRow
    /\ is_running = FALSE
    /\ jobs = NoJobs
    /\ loops = EmptyBag
    /\ workers = EmptyBag
    /\ current_task_id = None
    /\ calls = 0
    /\ log = <<>>

\* DatabaseManager(): the constructor, run by every process that imports
\* the module
InitDatabaseCall ==
    /\ dbConfig' = init_database(dbConfig)
    /\ log' = Logged("init_database", None)
    /\ UNCHANGED <<now, tasks, config, is_running, jobs, loops, workers, current_task_id, calls>>

\* db_manager.save_config(config)
SaveConfigCall(cfg) ==
    /\ dbConfig # None
    /\ dbConfig' = save_config(dbConfig, cfg)
    /\ log' = Logged("save_config", cfg)
    /\ UNCHANGED <<now, tasks, config, is_running, jobs, loops, workers, current_task_id, calls>>

BootstrapNext ==
    \/ InitDatabaseCall
    \/ \E cfg \in ConfigInputs : SaveConfigCall(cfg)
    \/ \E task \in {t \in TaskInputs : t.status = PENDING} :
           dbConfig # None /\ SaveTaskCall(task)
    \/ \E id \in StoredIds : DeleteTaskCall(id)

SpecBootstrap == InitEmptyDir /\ [][BootstrapNext]_vars

-----------------------------------------------------------------------------
(* DatabaseManager and the operations over it while storage operations fail *)

\* update_config(**kwargs) while the storage operation of save_config fails:
\* the setattr loop has changed self.config, save_config returns False, which
\* update_config does not look at, and a running scheduler is started again
update_config_over_failure(kw) ==
    /\ log' = Logged("storage_failure",
                     [call |-> "update_config", result |-> Returned(None)])
    /\ config' = UpdatedConfig(config, kw)
    /\ IF is_running
       THEN /\ jobs' = StartedJobs(config', now)
            /\ loops' = loops (+) SetToBag({now})
       ELSE UNCHANGED <<jobs, loops>>
    /\ UNCHANGED <<now, tasks, dbConfig, is_running, workers, current_task_id, calls>>

FailureNext ==
    \/ \E task \in {t \in TaskInputs : t.status = PENDING} : SaveTaskCall(task)
    \/ \E call \in StorageCalls \cup SchedulerCalls : FailingCall(call)
    \/ \E kw \in ConfigUpdates : update_config_over_failure(kw)

SpecFailure == Init /\ [][FailureNext]_vars

-----------------------------------------------------------------------------
(* Properties of the scheduler under every call of the page (Spec)          *)

\* C1: every stored task whose status is Completed or Failed has
\* success_count + error_count equal to its workflow_count
C1_CountsAddUp ==
    \A r \in tasks :
        r.status \in {COMPLETED, FAILED} =>
            r.success_count + r.error_count = r.workflow_count

\* C2: cancel_task(id) on a task that is not Pending is rejected: the stored
\* records are the same before and after the call
C2_CancelNonPendingRejected ==
    [][\A id \in StoredIds :
           (cancel_task(id) /\ get_task_by_id(id)[1].status # PENDING)
               => tasks' = tasks]_vars

\* the execute_task threads of task id that have called run_workflow
Invoked(id) ==
    [w \in {x \in BagToSet(workers) :
                x.task_id = id /\ x.success_count + x.error_count > 0}
        |-> CopiesIn(w, workers)]

\* C3: of the execute_task threads started for one task id, at most one runs
\* iterations of the workflow; any other aborts before it calls run_workflow
C3_OneWorkerRuns ==
    \A id \in StoredIds : BagCardinality(Invoked(id)) <= 1

\* the status graph: Pending -> Running | Cancelled, Running -> Completed | Failed
StatusGraph ==
    {<<PENDING, RUNNING>>, <<PENDING, CANCELLED>>,
     <<RUNNING, COMPLETED>>, <<RUNNING, FAILED>>}

\* C4: every change of the status of a stored task follows the status graph;
\* a Completed, Failed or Cancelled task never changes status again
C4_StatusFollowsGraph ==
    [][\A r \in tasks : \A r2 \in tasks' :
           (r.id = r2.id /\ r.status # r2.status)
               => <<r.status, r2.status>> \in StatusGraph]_vars

-----------------------------------------------------------------------------
(* Properties of DatabaseManager (SpecStore)                                *)

\* C5: delete_old_tasks(days) never removes a row whose status is Pending or
\* Running, whatever days, created_at and completed_at are
C5_PendingRunningKept ==
    [][\A days \in DaysChoices :
           DeleteOldTasksCall(days) =>
               \A r \in tasks : r.status \in {PENDING, RUNNING} => r \in tasks']_vars

\* the call made last
LastCall == log[Len(log)]

\* a delete_old_tasks call has just left a Pending or Running row whose dates
\* are older than its cutoff
C5_OldActiveRowSurvived ==
    /\ log # <<>>
    /\ LastCall.op = "delete_old_tasks"
    /\ \E r \in tasks :
           /\ r.status \in {PENDING, RUNNING}
           /\ OldTaskRow([r EXCEPT !.status = COMPLETED], now - LastCall.arg * Day)

\* C6: the total of get_task_statistics equals the number of tasks load_tasks
\* returns
C6_TotalIsLoadedCount ==
    \A list \in load_tasks(tasks) : Len(list) = get_task_statistics.total_tasks

\* the store holds rows of long ago and of the last days, and load_tasks
\* returns them all
C6_OldAndRecentRowsLoaded ==
    /\ \E r \in tasks : r.created_at < now - 7 * Day
    /\ \E r \in tasks : r.created_at >= now - 7 * Day
    /\ \E list \in load_tasks(tasks) : Len(list) = 2

\* C7: save_task is an upsert by id with full overwrite: after it the store
\* holds exactly one row of the saved id, equal to the saved task in every
\* field, the other rows are as before, and the number of rows does not grow
\* when the id was stored already
C7_SaveIsUpsert ==
    [][\A t \in TaskInputs :
           SaveTaskCall(t) =>
               /\ {r \in tasks' : r.id = t.id} = {t}
               /\ {r \in tasks' : r.id # t.id} = {r \in tasks : r.id # t.id}
               /\ (t.id \in StoredIds => Cardinality(tasks') = Cardinality(tasks))]_vars

\* two tasks of one id that agree in no field but id, name and scheduled_time
\* were saved one after the other, and the row of that id is the second
C7_SavedTwiceUnderOneId ==
    /\ Len(log) = 2
    /\ log[1].op = "save_task"
    /\ log[2].op = "save_task"
    /\ log[1].arg.id = log[2].arg.id
    /\ \A f \in DOMAIN log[1].arg \ {"id", "name", "scheduled_time"} :
           log[1].arg[f] # log[2].arg[f]
    /\ {r \in tasks : r.id = log[2].arg.id} = {log[2].arg}

-----------------------------------------------------------------------------
(* Properties of the polling loop (SpecPoll)                                *)

\* the due time of a Pending task at a dispatch check, with the delay that
\* TaskScheduler.config holds at the check
DueTime(r) ==
    IF r.id[1] = "test"
    THEN r.created_at + Minute
    ELSE r.created_at + config.auto_execute_delay_hours * Hour

\* the step starts an execute_task thread for task id from the polling loop
StartedFor(id) ==
    CopiesIn(NewWorker(id, "poller"), workers')
        > CopiesIn(NewWorker(id, "poller"), workers)

\* the step is a pass of the polling loop that runs the dispatch check
CheckRuns ==
    /\ is_running
    /\ JobDue(jobs.check, now)
    /\ \E wake \in BagToSet(loops) : LoopWake(wake)

\* C8: the polling loop dispatches a task only if it is Pending and now is at
\* or after its due time: created_at + 1 minute for a test_ id, created_at +
\* auto_execute_delay_hours otherwise, with the delay the in-memory config
\* holds at the check; and a dispatch check at which a Pending task is due
\* dispatches one
C8_DueTimeDecidesDispatch ==
    [][/\ \A w \in BagToSet(workers') :
              (w.by = "poller" /\ StartedFor(w.task_id)) =>
                  \E r \in tasks' :
                      r.id = w.task_id /\ r.status = PENDING /\ now >= DueTime(r)
       /\ CheckRuns =>
              ((\E r \in tasks' : r.status = PENDING /\ now >= DueTime(r))
                   => \E r \in tasks' : StartedFor(r.id))]_vars

\* the polling loop has just dispatched a daily task that is due by the delay
\* of the in-memory config and not yet due by the delay it was created under
C8_DispatchedByCurrentDelay ==
    \E r \in tasks :
        /\ ~IsTestId(r.id)
        /\ r.status = PENDING
        /\ CopiesIn(NewWorker(r.id, "poller"), workers) > 0
        /\ now >= r.created_at + config.auto_execute_delay_hours * Hour
        /\ now < r.id[2]

\* r is a daily task created under the default delay of 8 hours and still
\* Pending
WaitingSinceDefaultDelay(r) ==
    /\ ~IsTestId(r.id)
    /\ r.status = PENDING
    /\ r.id[2] = r.created_at + DefaultDelayHours * Hour

\* the keyword arguments that change the delay to 2 hours
DelayOfTwo == [k \in {"auto_execute_delay_hours"} |-> 2]

\* C9 as the scenario states it: a daily Pending task was created 1 hour ago
\* under a delay of 8, update_config changes the delay to 2 while the scheduler
\* runs, and the very next dispatch check after the change dispatches the task
C9_DispatchedOnNextTick ==
    [][\A r \in tasks :
           (/\ WaitingSinceDefaultDelay(r)
            /\ log # <<>>
            /\ LastCall.op = "update_config"
            /\ LastCall.arg = DelayOfTwo
            /\ jobs.check = Some(r.created_at + Hour + Minute)
            /\ CheckRuns)
               => StartedFor(r.id)]_vars

\* C9: after update_config has changed the delay from 8 to 2 while a daily
\* Pending task created under 8 waits, a dispatch check before created_at + 2
\* hours does not dispatch the task, and a dispatch check at or after
\* created_at + 2 hours dispatches it, or a due Pending task created no earlier
C9_DispatchedOnceTwoHoursOld ==
    [][\A r \in tasks :
           (/\ WaitingSinceDefaultDelay(r)
            /\ config.auto_execute_delay_hours = 2
            /\ CheckRuns)
               => IF now >= r.created_at + 2 * Hour
                  THEN \E r2 \in tasks' :
                           /\ r2.status = PENDING
                           /\ r2.created_at >= r.created_at
                           /\ now >= DueTime(r2)
                           /\ StartedFor(r2.id)
                  ELSE ~StartedFor(r.id)]_vars

\* the delay was changed to 2 while the scheduler ran and the task created
\* an hour before the start waited, and two hours after its creation the
\* polling loop has dispatched it
C9_DispatchedAnHourAfterChange ==
    \E r \in tasks :
        /\ WaitingSinceDefaultDelay(r)
        /\ r.created_at = StartTime - Hour
        /\ log = <<[op |-> "start_scheduler", arg |-> None],
                   [op |-> "update_config", arg |-> DelayOfTwo]>>
        /\ now >= r.created_at + 2 * Hour
        /\ CopiesIn(NewWorker(r.id, "poller"), workers) > 0

-----------------------------------------------------------------------------
(* Properties of test tasks of 3 workflows (SpecImmediate)                  *)

\* C10: a test task created with workflow_count 3 while the polling loop
\* runs, once the loop has dispatched it and it is Completed or Failed, has
\* success_count + error_count = 3
C10_ThreeWorkflowsCounted ==
    \A r \in tasks :
        (IsTestId(r.id) /\ r.workflow_count = 3 /\ r.status \in {COMPLETED, FAILED})
            => r.success_count + r.error_count = 3

-----------------------------------------------------------------------------
(* Properties of the polling loop over a backlog (SpecBacklog)              *)

\* C11: a wake of the polling loop starts at most one execute_task thread,
\* even when several Pending tasks are due, and every task that was Pending
\* before the wake is Pending after it
C11_OneDispatchPerWake ==
    [][\A wake \in BagToSet(loops) :
           LoopWake(wake) =>
               /\ BagCardinality(workers') <= BagCardinality(workers) + 1
               /\ \A r \in tasks :
                      r.status = PENDING =>
                          \E r2 \in tasks' : r2.id = r.id /\ r2.status = PENDING]_vars

\* the polling loop has just started its only thread, for one of two
\* Pending tasks that are both due
C11_OneOfTwoDueDispatched ==
    /\ BagCardinality(workers) = 1
    /\ \E r1 \in tasks, r2 \in tasks :
           /\ r1.id # r2.id
           /\ r1.status = PENDING /\ now >= DueTime(r1)
           /\ r2.status = PENDING /\ now >= DueTime(r2)
           /\ CopiesIn(NewWorker(r1.id, "poller"), workers) = 1

-----------------------------------------------------------------------------
(* Properties of the scheduler threads (Spec)                               *)

\* the _run_scheduler threads that found is_running true at their last test,
\* ran a pass of the while loop and sleep until the next one
Looping ==
    [wake \in {x \in BagToSet(loops) : x > now} |-> CopiesIn(wake, loops)]

\* C12: after any sequence of start_scheduler, stop_scheduler and
\* update_config calls at most one thread is alive and executing
\* _run_scheduler: no two threads have passed the is_running test and sleep
\* towards their next pass
C12_OneLoopThread ==
    BagCardinality(Looping) <= 1

\* the step is a pass of the polling loop in which a step fails
FailingPass(wake) == is_running /\ LoopWakeCaught(wake)

-----------------------------------------------------------------------------
(* Properties of failing storage operations (SpecFailure)                   *)

\* C14: a call whose storage operation fails does not raise: load_tasks
\* returns an empty list, get_task_by_id None, get_task_statistics zero
\* counts, delete_old_tasks 0, save_task, delete_task and save_config False;
\* and create_daily_task, create_immediate_task, update_task_status and
\* cancel_task return as well
C14_FailureGivesDefault ==
    \A i \in DOMAIN log :
        log[i].op = "storage_failure" =>
            LET call == log[i].arg.call
                res == log[i].arg.result
            IN  /\ ~res.raised
                /\ call = "load_tasks" => res.value = <<>>
                /\ call = "get_task_by_id" => res.value = None
                /\ call = "get_task_statistics" =>
                       /\ res.value.total_tasks = 0
                       /\ res.value.recent_tasks = 0
                       /\ DOMAIN res.value.status_counts = {}
                /\ call = "delete_old_tasks" => res.value = 0
                /\ call \in {"save_task", "delete_task", "save_config"} =>
                       res.value = FALSE

\* tasks are stored, the storage operation of load_tasks has just failed, and
\* the caller got the empty list
C14_LoadFailedOverStoredTasks ==
    /\ tasks # {}
    /\ log # <<>>
    /\ LastCall.op = "storage_failure"
    /\ LastCall.arg.call = "load_tasks"
    /\ LastCall.arg.result = Returned(<<>>)

-----------------------------------------------------------------------------
(* Properties of the stored counts (SpecStarted)                            *)

\* C15: every stored task has success_count >= 0, error_count >= 0 and
\* success_count + error_count <= workflow_count
C15_CountsWithinWorkflowCount ==
    \A r \in tasks :
        /\ r.success_count >= 0
        /\ r.error_count >= 0
        /\ r.success_count + r.error_count <= r.workflow_count

-----------------------------------------------------------------------------
(* Properties of the timestamps of a task (Spec)                            *)

\* C16: started_at of a task changes only as its status goes from Pending to
\* Running, completed_at changes only as the task enters a terminal state,
\* and a started_at that was written is never overwritten
C16_TimestampsWrittenOnce ==
    [][\A r \in tasks : \A r2 \in tasks' :
           r.id = r2.id =>
               /\ r.started_at # r2.started_at =>
                      /\ r.status = PENDING
                      /\ r2.status = RUNNING
                      /\ r.started_at = None
               /\ r.completed_at # r2.completed_at =>
                      /\ r.status \notin Terminal
                      /\ r2.status \in Terminal]_vars

-----------------------------------------------------------------------------
(* Properties of cancellation against the polling loop (SpecCancel)         *)

\* C17: a task cancelled while Pending (Cancelled, never started) is not set
\* to Running afterwards, also when the poll that dispatches it read the
\* Pending list before the cancel
C17_CancelledNeverRuns ==
    [][\A r \in tasks :
           (r.status = CANCELLED /\ r.started_at = None) =>
               \A r2 \in tasks' : r2.id = r.id => r2.status # RUNNING]_vars

-----------------------------------------------------------------------------
(* Properties of update_config (SpecPoll)                                   *)

\* the step is a call of update_config
UpdateConfigCalled ==
    /\ calls' = calls + 1
    /\ log'[Len(log')].op = "update_config"

\* C18: update_config stores the changed fields at once; a running scheduler
\* is running again afterwards with its jobs registered anew from the new
\* configuration and a fresh loop thread, a stopped one stays stopped; no
\* stored task is changed
C18_UpdateConfigKeepsTasks ==
    [][UpdateConfigCalled =>
           LET kw == log'[Len(log')].arg
           IN  /\ config' = UpdatedConfig(config, kw)
               /\ dbConfig' = config'
               /\ is_running' = is_running
               /\ is_running =>
                      /\ jobs' = StartedJobs(config', now)
                      /\ BagIn(now, loops')
               /\ ~is_running => jobs' = jobs /\ loops' = loops
               /\ tasks' = tasks]_vars

\* update_config changed the delay of a running scheduler over a stored task
C18_DelayChangedWhileRunning ==
    /\ Len(log) = 2
    /\ log[1].op = "start_scheduler"
    /\ log[2] = [op |-> "update_config", arg |-> DelayOfTwo]
    /\ is_running
    /\ dbConfig.auto_execute_delay_hours = 2
    /\ tasks # {}

-----------------------------------------------------------------------------
(* Properties of execute_task_immediately (SpecManual)                      *)

\* the step is a call of execute_task_immediately
ExecuteImmediatelyCalled ==
    /\ calls' = calls + 1
    /\ log'[Len(log')].op = "execute_task_immediately"

\* C19: execute_task_immediately(id) starts an execute_task thread for id in
\* the call itself, whatever the status of the task is and whether or not
\* its execute time has come, and changes no stored task
C19_WorkerStartedAtOnce ==
    [][ExecuteImmediatelyCalled =>
           LET id == log'[Len(log')].arg
           IN  /\ workers' = Spawn(workers, id, "manual")
               /\ tasks' = tasks]_vars

\* a thread was started for a Completed task whose execute time has not come
C19_StartedForCompletedNotDue ==
    /\ log # <<>>
    /\ LastCall.op = "execute_task_immediately"
    /\ \E r \in tasks :
           /\ r.id = LastCall.arg
           /\ r.status = COMPLETED
           /\ now < task_execute_time(r, config)
           /\ BagIn(NewWorker(r.id, "manual"), workers)

-----------------------------------------------------------------------------
(* Properties of the daily job (SpecAuto)                                   *)

\* no call has touched auto_create_enabled: it is TRUE as stored
EnabledThroughout ==
    \A i \in DOMAIN log : "auto_create_enabled" \notin DOMAIN log[i].arg

\* the tasks created since the process was started
CreatedToday == {r \in tasks : r.created_at >= StartTime}

\* C20: with auto-create enabled, once the clock has reached
\* auto_create_time and the polling loop has run its pass, the loop has
\* created a task with default_workflow_count, and it creates no more than
\* one task per day
C20_CreatedOnceAtAutoCreateTime ==
    /\ Cardinality(CreatedToday) <= 1
    /\ (EnabledThroughout /\ now >= config.auto_create_time /\ ~Awake) =>
           \E r \in CreatedToday :
               /\ r.created_at >= config.auto_create_time
               /\ r.workflow_count = config.default_workflow_count

-----------------------------------------------------------------------------
(* Properties of the fields a task is created with (SpecStarted)            *)

\* the fields update_task_status does not assign
CreationFields(r) ==
    <<r.id, r.name, r.scheduled_time, r.workflow_count, r.created_at>>

\* C21: once a stored task is no longer Pending, its id, name,
\* scheduled_time, workflow_count and created_at are the same after every step
C21_CreationFieldsKept ==
    [][\A r \in tasks :
           r.status # PENDING =>
               \A r2 \in tasks' :
                   r2.id = r.id => CreationFields(r2) = CreationFields(r)]_vars

-----------------------------------------------------------------------------
(* Properties of init_database (SpecBootstrap)                              *)

\* C22: init_database on a store that has its config row changes neither a
\* task nor the config row, also when the row is not the default one; on a
\* store without a config row it inserts the default row (enabled, 18:00,
\* 8 hours, 70) and changes no task
C22_InitDatabaseIdempotent ==
    [][log'[Len(log')].op = "init_database" =>
           /\ tasks' = tasks
           /\ dbConfig # None => dbConfig' = dbConfig
           /\ dbConfig = None =>
                  dbConfig' = Some([auto_create_enabled |-> TRUE,
                                    auto_create_time |-> 18 * Hour,
                                    auto_execute_delay_hours |-> 8,
                                    default_workflow_count |-> 70])]_vars

\* init_database ran again over stored tasks and a saved config that is not
\* the default one
C22_RunAgainOverSavedConfig ==
    /\ Len(log) = 2
    /\ log[1].op = "save_config"
    /\ log[2].op = "init_database"
    /\ dbConfig = Some(log[1].arg)
    /\ dbConfig # Some(DefaultConfigRow)
    /\ tasks # {}

-----------------------------------------------------------------------------
(* Properties of the create operations (SpecCreate)                         *)

\* the task a create call has stored: Pending, of the kind given by prefix,
\* created now, with zero counts and workflow_count the count passed or
\* default when none is passed; no other row is added
StoredNew(prefix, count, default) ==
    \E r \in tasks' :
        /\ r.id[1] = prefix
        /\ r.status = PENDING
        /\ r.created_at = now
        /\ r.success_count = 0
        /\ r.error_count = 0
        /\ r.workflow_count = IF count = None THEN default ELSE count[1]
        /\ tasks' \ {r} \subseteq tasks

\* C23: create_daily_task(count) stores a Pending task with id prefix task_,
\* zero counts and workflow_count = count, or the current
\* default_workflow_count when count is omitted; create_immediate_task(count)
\* stores a Pending task with id prefix test_ and workflow_count = count, or
\* 5 when count is omitted
C23_CreateStoresPendingTask ==
    [][calls' = calls + 1 =>
           LET call == log'[Len(log')]
           IN  /\ call.op = "create_daily_task" =>
                      StoredNew("task", call.arg, config.default_workflow_count)
               /\ call.op = "create_immediate_task" =>
                      StoredNew("test", call.arg[1], 5)]_vars

\* create_daily_task() without a count after the default was changed to 2
C23_CreatedWithChangedDefault ==
    /\ Len(log) = 2
    /\ log[1].op = "update_config"
    /\ log[2] = [op |-> "create_daily_task", arg |-> None]
    /\ config.default_workflow_count = 2
    /\ \E r \in tasks : r.created_at = now /\ r.workflow_count = 2

-----------------------------------------------------------------------------
(* Properties of delete_task against running workers (SpecDelete)           *)

\* C24: after delete_task(id) has returned, and while no task is created,
\* no row with that id is in the store: no step of an execute_task thread
\* brings the row back
C24_DeletedStaysAbsent ==
    (log # <<>> /\ LastCall.op = "delete_task") => LastCall.arg \notin StoredIds

-----------------------------------------------------------------------------
(* Properties of the for loop of execute_task (SpecLong)                    *)

\* the calls of run_workflow an execute_task thread has made
Invocations(w) == w.success_count + w.error_count

\* the for loop of the thread has ended without an exception leaving it
LoopDone(w) == w.pc = "finish" /\ w.i = w.workflow_count

\* C25: an execute_task thread never calls run_workflow more often than the
\* workflow_count of its stored task, each pass of its loop makes one call,
\* and a thread whose loop has ended has made exactly workflow_count calls
C25_WorkflowCountInvocations ==
    \A w \in BagToSet(workers) :
        /\ (w.pc = "loop" \/ LoopDone(w)) =>
               /\ \A r \in tasks : r.id = w.task_id => w.workflow_count = r.workflow_count
               /\ Invocations(w) = w.i
               /\ Invocations(w) <= w.workflow_count
        /\ LoopDone(w) => Invocations(w) = w.workflow_count

\* a thread has run a loop of four passes to its end, one of them failing
C25_FourPassesDone ==
    \E w \in BagToSet(workers) :
        /\ LoopDone(w)
        /\ w.workflow_count = LongCount
        /\ w.error_count = 1

\* C26: when an execute_task thread whose loop has ended writes its result,
\* the task is Completed if the thread's error count is 0 and Failed
\* otherwise, completed_at is set to the time of the update, and the stored
\* success_count and error_count are the thread's counts
C26_ResultOfFinishedLoop ==
    [][\A w \in BagToSet(workers) :
           (LoopDone(w) /\ ~BagIn(w, workers')) =>
               \E r \in tasks' :
                   /\ r.id = w.task_id
                   /\ r.status = COMPLETED <=> w.error_count = 0
                   /\ r.status = FAILED <=> w.error_count # 0
                   /\ r.completed_at = Some(now)
                   /\ r.success_count = w.success_count
                   /\ r.error_count = w.error_count]_vars

\* a task of four workflows is stored Failed with three successes and one
\* error, its thread gone
C26_FailedThreeToOne ==
    /\ workers = EmptyBag
    /\ \E r \in tasks :
           /\ r.workflow_count = LongCount
           /\ r.status = FAILED
           /\ r.completed_at # None
           /\ r.success_count = 3
           /\ r.error_count = 1

\* C27: a pass of the loop that ends in the loop adds one to exactly one of
\* success_count and error_count: to success_count when run_workflow and
\* asave_result_to_file both return, to error_count when either raises, also
\* when run_workflow had returned; the thread then goes on to the next pass
C27_OnePassOneCount ==
    [][\A w \in BagToSet(workers) : \A o \in Outcomes \ {"fatal"} :
           WIterate(w, o) =>
               \E w2 \in BagToSet(workers') :
                   /\ w2.task_id = w.task_id
                   /\ w2.pc = "loop"
                   /\ w2.i = w.i + 1
                   /\ w2.success_count = w.success_count + (IF o = "ok" THEN 1 ELSE 0)
                   /\ w2.error_count = w.error_count + (IF o = "ok" THEN 0 ELSE 1)]_vars

\* a thread is in its loop after a pass that succeeded and a pass in which
\* asave_result_to_file raised
C27_SaveFailureCounted ==
    \E w \in BagToSet(workers) :
        /\ w.pc = "loop"
        /\ w.success_count = 1
        /\ w.error_count = 1
        /\ w.error_messages = << <<2, "save_fail">> >>

\* C28: the error_message an execute_task thread stores after its loop has
\* ended is null exactly when no pass failed; otherwise it holds the
\* messages of the first failed passes, at most 3 of them, in the order of
\* the passes
C28_FirstThreeMessages ==
    [][\A w \in BagToSet(workers) :
           (LoopDone(w) /\ ~BagIn(w, workers')) =>
               \E r \in tasks' :
                   /\ r.id = w.task_id
                   /\ r.error_message = None <=> w.error_count = 0
                   /\ Len(w.error_messages) = w.error_count
                   /\ Len(r.error_message) =
                          (IF w.error_count < 3 THEN w.error_count ELSE 3)
                   /\ \A k \in DOMAIN r.error_message :
                          /\ r.error_message[k] = w.error_messages[k]
                          /\ k > 1 => r.error_message[k - 1][1] < r.error_message[k][1]]_vars

\* four passes failed and the messages of the first three are stored
C28_FourFailedThreeStored ==
    /\ workers = EmptyBag
    /\ \E r \in tasks :
           /\ r.error_count = LongCount
           /\ Len(r.error_message) = 3
           /\ r.error_message[1][1] = 1
           /\ r.error_message[3][1] = 3

\* C29: once an exception has left the loop of an execute_task thread, the
\* thread calls run_workflow no more, and its next write sets the task to
\* Failed with the text of the exception (<<0>>, not a list of pass messages)
\* as error_message and completed_at the time of the exception
C29_EscapedExceptionFailsTask ==
    [][\A w \in BagToSet(workers) :
           /\ w.pc = "fatal" =>
                  \A w2 \in BagToSet(workers') :
                      w2.task_id = w.task_id =>
                          w2.pc \in {"fatal", "finish"} /\ Invocations(w2) = Invocations(w)
           /\ (w.pc = "finish" /\ ~LoopDone(w) /\ ~BagIn(w, workers')) =>
                  \E r \in tasks' :
                      /\ r.id = w.task_id
                      /\ r.status = FAILED
                      /\ r.error_message = <<0>>
                      /\ r.completed_at = Some(now)]_vars

\* the task of four workflows is stored Failed with the text of an exception
\* that left the loop
C29_FailedWithRawText ==
    /\ workers = EmptyBag
    /\ \E r \in tasks :
           /\ r.workflow_count = LongCount
           /\ r.status = FAILED
           /\ r.error_message = <<0>>
           /\ r.completed_at # None

-----------------------------------------------------------------------------
(* Properties of the order of dispatch (SpecBacklog)                        *)

\* r is Pending and due in the rows after the step
DueAfterStep(r) == r \in tasks' /\ r.status = PENDING /\ now >= DueTime(r)

\* C30: every list load_tasks returns holds all rows with created_at
\* descending, and the task a wake of the polling loop starts a thread for
\* is the most recently created of the Pending tasks that are due
C30_NewestDueDispatched ==
    [][/\ \A s \in load_tasks(tasks) :
              /\ {s[i] : i \in DOMAIN s} = tasks
              /\ \A i \in DOMAIN s : \A j \in DOMAIN s :
                     i < j => s[i].created_at >= s[j].created_at
       /\ \A id \in StoredIds' :
              CopiesIn(NewWorker(id, "poller"), workers')
                      > CopiesIn(NewWorker(id, "poller"), workers) =>
                  \E r \in tasks' :
                      /\ r.id = id
                      /\ DueAfterStep(r)
                      /\ \A q \in tasks' : DueAfterStep(q) => q.created_at <= r.created_at]_vars

\* of two Pending tasks that are both due the polling loop has started the
\* one created later
C30_LaterOfTwoDispatched ==
    \E r \in tasks, q \in tasks :
        /\ r.status = PENDING /\ now >= DueTime(r)
        /\ q.status = PENDING /\ now >= DueTime(q)
        /\ q.created_at < r.created_at
        /\ CopiesIn(NewWorker(r.id, "poller"), workers) = 1

-----------------------------------------------------------------------------
(* Properties of the retention operation (SpecStore)                        *)

\* C31: delete_old_tasks(days) removes the rows in a terminal status whose
\* completed_at is before now - days, or is unset with created_at before
\* now - days; it removes no other row, changes none, and returns the number
\* of rows removed
C31_RemovesExactlyOldTerminal ==
    [][\A days \in DaysChoices :
           DeleteOldTasksCall(days) =>
               LET cutoff == now - days * Day
               IN  /\ tasks' \subseteq tasks
                   /\ \A r \in tasks :
                          r \notin tasks' <=>
                              /\ r.status \in {COMPLETED, FAILED, CANCELLED}
                              /\ \/ r.completed_at # None /\ r.completed_at[1] < cutoff
                                 \/ r.completed_at = None /\ r.created_at < cutoff
                   /\ deleted_count(tasks, days, now)
                          = Cardinality(tasks) - Cardinality(tasks')]_vars

\* delete_old_tasks(30) has left a terminal task that was created before the
\* cutoff and completed after it
C31_LatelyCompletedKept ==
    /\ log # <<>>
    /\ LastCall = [op |-> "delete_old_tasks", arg |-> 30]
    /\ \E r \in tasks :
           /\ r.status \in {COMPLETED, FAILED, CANCELLED}
           /\ r.created_at < now - 30 * Day
           /\ r.completed_at # None
           /\ r.completed_at[1] >= now - 30 * Day

-----------------------------------------------------------------------------
(* Threads of different tasks side by side (SpecBacklog)                    *)

\* no two execute_task threads are at work on the same task id
DistinctIds ==
    \A w1 \in BagToSet(workers) :
        /\ CopiesIn(w1, workers) = 1
        /\ \A w2 \in BagToSet(workers) : w1.task_id = w2.task_id => w1 = w2

\* the status and keyword arguments of the update_task_status call whose
\* write the thread of frame w is about to do
WrittenStatus(w) ==
    IF w.pc = "set_running" THEN RUNNING
    ELSE IF LoopDone(w) THEN CompleteStatus(w) ELSE FAILED

WrittenKw(w) ==
    IF w.pc = "set_running" THEN <<>>
    ELSE IF LoopDone(w) THEN CompleteKw(w) ELSE FatalKw

\* C32: threads at work on different task ids do not interfere: whatever the
\* interleaving, each write of a thread puts into the row of its own task
\* what update_task_status computes from that row as it is stored and from
\* the thread's own counts, and it leaves every other row as it is
C32_WorkersDoNotInterfere ==
    [][\A w \in BagToSet(workers) :
           (DistinctIds /\ (WSetRunning(w) \/ WFinish(w))) =>
               \E own \in tasks :
                   /\ own.id = w.task_id
                   /\ tasks' = (tasks \ {own})
                          \cup {UpdatedTask(own, WrittenStatus(w), WrittenKw(w), now)}]_vars

\* a task was brought to its end while the thread of another task, started
\* before that moment, is still at work and about to write its own result
C32_FinishedBesideAnother ==
    \E w \in BagToSet(workers), own \in tasks, other \in tasks :
        /\ w.pc = "finish"
        /\ own.id = w.task_id
        /\ other.id # own.id
        /\ other.status \in {COMPLETED, FAILED}
        /\ other.started_at # None
        /\ other.completed_at # None
        /\ own.started_at # None
        /\ own.started_at[1] <= other.completed_at[1]

-----------------------------------------------------------------------------
(* Creation beside stored tasks (SpecCreate)                                *)

\* C33: every create_daily_task or create_immediate_task call that returns
\* adds one task: the store has one row more than before, and every row
\* stored before is still there with all its fields, also when two tasks are
\* created within one minute or for the same execution time
C33_CreateAddsOneTask ==
    [][(/\ calls' = calls + 1
        /\ log'[Len(log')].op \in {"create_daily_task", "create_immediate_task"})
           => /\ Cardinality(tasks') = Cardinality(tasks) + 1
              /\ tasks \subseteq tasks']_vars

-----------------------------------------------------------------------------
(* current_task_id against the threads at work (SpecDelete)                 *)

\* C34: current_task_id is None when no execute_task thread is at work, and
\* when it is not None it is the id of a task that a thread is executing
C34_CurrentTaskHasWorker ==
    /\ workers = EmptyBag => current_task_id = None
    /\ current_task_id # None =>
           \E w \in BagToSet(workers) :
               w.pc # "start" /\ w.task_id = current_task_id

-----------------------------------------------------------------------------
(* Properties of get_tasks (SpecStore)                                      *)

\* the number of places of list s that hold task t
Occurrences(s, t) == Cardinality({k \in 1..Len(s) : s[k] = t})

\* C35: get_tasks partitions the store: every stored task is in exactly one
\* of the lists pending, running and completed, the Pending tasks in
\* pending, the Running ones in running, the Completed, Failed and Cancelled
\* ones in completed, and the three lists together are as long as the list
\* load_tasks returns
C35_GetTasksPartitions ==
    \A list \in load_tasks(tasks) :
        LET g == get_tasks(list)
        IN  /\ Len(g.pending) + Len(g.running) + Len(g.completed) = Len(list)
            /\ \A r \in tasks :
                   /\ Occurrences(g.pending \o g.running \o g.completed, r) = 1
                   /\ Occurrences(g.pending, r) = 1 <=> r.status = PENDING
                   /\ Occurrences(g.running, r) = 1 <=> r.status = RUNNING
                   /\ Occurrences(g.completed, r) = 1
                          <=> r.status \in {COMPLETED, FAILED, CANCELLED}

\* the store holds a Cancelled task beside a Running one: two of the lists
\* are filled and pending is empty
C35_CancelledBesideRunning ==
    /\ \E r1 \in tasks, r2 \in tasks :
           r1.status = CANCELLED /\ r2.status = RUNNING
    /\ \A r \in tasks : r.status # PENDING

-----------------------------------------------------------------------------
(* Progress of a Running task (SpecManualFair)                              *)

\* the ids of the tasks data/tasks.db may hold at the start
InitialIds == {r.id : r \in UNION StoredTasks}

\* the stored task with this id has one of these statuses
HasStatus(id, statuses) == \E r \in tasks : r.id = id /\ r.status \in statuses

\* C36: a task that is Running becomes Completed or Failed in the end, when
\* every workflow invocation returns or raises and the threads are run on
C36_RunningLeadsToFinished ==
    \A id \in InitialIds :
        HasStatus(id, {RUNNING}) ~> HasStatus(id, {COMPLETED, FAILED})

\* a task that was cancelled while it was Running has been brought to
\* Completed or Failed by its thread
C36_FinishedAfterCancel ==
    /\ Len(log) = 2
    /\ log[1].op = "execute_task_immediately"
    /\ log[2].op = "cancel_task"
    /\ workers = EmptyBag
    /\ \E r \in tasks :
           /\ r.id = log[2].arg
           /\ r.status \in {COMPLETED, FAILED}
           /\ r.started_at # None

-----------------------------------------------------------------------------
(* Progress of a due task (SpecArrival)                                     *)

\* the stored task with this id is Pending and its due time has passed
PendingAndDue(id) ==
    \E r \in tasks :
        r.id = id /\ r.status = PENDING /\ now >= task_execute_time(r, config)

\* C37: while the polling loop is running, a Pending task whose due time has
\* passed is dispatched in the end, or cancelled or deleted before: it does
\* not stay Pending for ever while other tasks become due
C37_DueTaskDispatched ==
    (is_running /\ PendingAndDue(OverdueTask.id))
        ~> (~is_running \/ ~HasStatus(OverdueTask.id, {PENDING}))

-----------------------------------------------------------------------------
(* The configuration in memory and in the store (SpecFailure)               *)

\* C38: after update_config has returned, self.config and the row of
\* scheduler_config hold the same four values, also when the write of
\* save_config failed
C38_ConfigSavedAsHeld ==
    [][\A kw \in ConfigUpdates :
           (update_config(kw) \/ update_config_over_failure(kw))
               => dbConfig' = config']_vars

-----------------------------------------------------------------------------
(* The polling loop after stop_scheduler (SpecStop)                         *)

\* C39: after stop_scheduler has returned, and while start_scheduler is not
\* called again, the polling loop starts no thread on execute_task and
\* creates no task; a step of a thread that was started before is not
\* hindered
C39_NothingStartedAfterStop ==
    [][~is_running =>
           /\ StoredIds' \subseteq StoredIds
           /\ \A w \in BagToSet(workers') :
                  (w.by = "poller" /\ w.pc = "start")
                      => CopiesIn(w, workers') <= CopiesIn(w, workers)]_vars

====
